---- MODULE Spec2Model ----
(***************************************************************************)
(* Annual energy-system accounting of the Bangladesh energy transition     *)
(* suite: EnergySystem (models/energy_system.py), the scenario runner      *)
(* (run_scenarios.py) and the sensitivity runner (run_sensitivity.py).     *)
(*                                                                         *)
(* Units.  Capacity is held in 1/100 MW, capacity factors and regional     *)
(* shares in percent, so generation is held in 1/10000 MWh.  A name such   *)
(* as 'solar_pv' is the sequence of its '_'-separated tokens, so that      *)
(* f"{tech}_{region}" is concatenation and x.split('_')[0] is Head.        *)
(***************************************************************************)
EXTENDS Integers, Sequences, FiniteSets, TLC

\* ------------------------------------------------------------------ bounds
\* Years of the simulation horizon (the default configuration has 27).
HorizonYears == 3
\* Time buckets per year (the hourly index has 8760); the last one stands for
\* the hours of December 31 after 00:00.
BucketsPerYear == 3
\* Calls made on one EnergySystem instance.
MaxCalls == 2
\* run() and run_base_case() calls made on the runners.
MaxRuns == 5
\* run_sensitivity_analysis calls, and the candidate values of one call.
MaxSweeps == 2
MaxValues == 2

\* ------------------------------------------------------------ names
solar_pv == <<"solar", "pv">>
wind == <<"wind">>
biomass == <<"biomass">>
battery_storage == <<"battery", "storage">>

\* A missing value of a DataFrame cell (numpy.nan).
NaN == -1

IsNaN(x) == x = NaN

\* float arithmetic on cells: NaN propagates.
Add(a, b) == IF IsNaN(a) \/ IsNaN(b) THEN NaN ELSE a + b
Mul(a, b) == IF IsNaN(a) THEN NaN ELSE a * b

\* ------------------------------------------------- EnergySystemConfig
start_year == 2024
end_year == start_year + HorizonYears - 1

regions == <<"Dhaka", "Chittagong", "Khulna", "Rajshahi",
             "Sylhet", "Barishal", "Rangpur", "Mymensingh">>

\* config.technologies, in dict order; battery_storage has no capacity_factor.
technology_keys == <<solar_pv, wind, biomass, battery_storage>>

technologies ==
    (solar_pv :> [capacity_factor |-> 15, cost_per_mw |-> 800000, lifetime |-> 25])
 @@ (wind :> [capacity_factor |-> 25, cost_per_mw |-> 1200000, lifetime |-> 20])
 @@ (biomass :> [capacity_factor |-> 75, cost_per_mw |-> 2000000, lifetime |-> 20])
 @@ (battery_storage :> [cost_per_mwh |-> 200000, lifetime |-> 10, efficiency |-> 90])

Range(s) == {s[i] : i \in DOMAIN s}

\* f"{tech}_{region}"
Column(tech, region) == tech \o <<region>>

columns == {Column(t, r) : t \in Range(technology_keys), r \in Range(regions)}

\* ------------------------------------------------------- time index
\* pd.Timestamp(f"{year}-01-01") and pd.Timestamp(f"{year}-12-31") (00:00 of
\* December 31), as bucket numbers counted from the start of start_year.
YearStart(year) == (year - start_year) * BucketsPerYear
YearEnd(year) == YearStart(year) + BucketsPerYear - 2

\* pd.date_range(start=f"{start_year}-01-01", end=f"{end_year}-12-31", freq)
n_buckets == IF YearEnd(end_year) >= YearStart(start_year)
             THEN YearEnd(end_year) - YearStart(start_year) + 1 ELSE 0
time_index == [i \in 1..n_buckets |-> YearStart(start_year) + i - 1]

\* the mask left open at its end: time_index >= year_start
YearMaskOpenEnded(year) == {i \in DOMAIN time_index : time_index[i] >= YearStart(year)}

\* (time_index >= year_start) & (time_index <= year_end)
YearMask(year) == {i \in DOMAIN time_index :
                     time_index[i] >= YearStart(year) /\ time_index[i] <= YearEnd(year)}

\* time_index >= year_start
FromYearMask(year) == {i \in DOMAIN time_index : time_index[i] >= YearStart(year)}

\* ------------------------------------------------------------ sums
RECURSIVE SumOver(_, _)
\* sum of f over the set S, missing values skipped (pandas sum, skipna)
SumOver(f, S) ==
    IF S = {} THEN 0
    ELSE LET x == CHOOSE y \in S : TRUE
         IN (IF IsNaN(f[x]) THEN 0 ELSE f[x]) + SumOver(f, S \ {x})

\* frame.loc[mask, cols].sum().sum()
FrameSum(frame, mask, cols) ==
    SumOver([c \in cols |-> SumOver(frame[c], mask)], cols)

\* --------------------------------------------------------- state
VARIABLES
    capacity,      \* EnergySystem.capacity: column -> bucket -> 1/100 MW or NaN
    generation,    \* EnergySystem.generation: column -> bucket -> 1/10000 MWh or NaN
    demand,        \* EnergySystem.demand: region -> bucket -> 1/10000 MW
    rng,           \* position of numpy's global random stream
    last,          \* the last call made on the EnergySystem and how it ended
    calls          \* number of calls made so far

VARIABLES
    heap,          \* the dict objects of the configuration: reference -> table
    attrs,         \* instance -> the reference each of its config attributes holds
    results,       \* scenario -> how its last run() ended and the table it returned
    runs,          \* number of run() / run_base_case() calls made so far
    base_results,  \* SensitivityAnalysis.base_results
    sweep,         \* the last run_sensitivity_analysis call and how it ended
    sweeps         \* number of run_sensitivity_analysis calls made so far

VARIABLES
    probe          \* the last call made on a model or helper function and its outcome

energyVars == <<capacity, generation, demand, last, calls>>
runnerVars == <<heap, attrs, results, runs, base_results, sweep, sweeps>>
modelVars == <<probe>>

\* No model or helper function has been called. These functions keep no
\* state between calls, so one call of them is looked at per behaviour.
NoProbe == [op |-> "none"]

\* ------------------------------------------------- initialize_system
EmptyFrame(cols) == [c \in cols |-> [i \in DOMAIN time_index |-> NaN]]

solar_capacity == 946

solar_distribution ==
    [r \in Range(regions) |->
        CASE r = "Dhaka" -> 15 [] r = "Chittagong" -> 20 [] r = "Khulna" -> 15
          [] r = "Rajshahi" -> 15 [] r = "Sylhet" -> 10 [] r = "Barishal" -> 10
          [] r = "Rangpur" -> 10 [] r = "Mymensingh" -> 5]

\* solar_capacity * share kept in whole MW
InitialCapacityWholeMW(share) == ((solar_capacity * share) \div 100) * 100

\* solar_capacity * share, the value written for a region
InitialCapacityValue(share) == solar_capacity * share

\* self.capacity[f"solar_pv_{region}"].iloc[0] = solar_capacity * share
set_initial_capacity(frame) ==
    [c \in DOMAIN frame |->
        IF \E r \in DOMAIN solar_distribution : c = Column(solar_pv, r)
        THEN [i \in DOMAIN frame[c] |->
                 IF i = 1 THEN InitialCapacityValue(solar_distribution[c[Len(c)]])
                 ELSE frame[c][i]]
        ELSE frame[c]]

base_demand ==
    [r \in Range(regions) |->
        CASE r = "Dhaka" -> 5000 [] r = "Chittagong" -> 2000 [] r = "Khulna" -> 1000
          [] r = "Rajshahi" -> 800 [] r = "Sylhet" -> 600 [] r = "Barishal" -> 500
          [] r = "Rangpur" -> 700 [] r = "Mymensingh" -> 400]

\* 1000 * sin(2*pi*p/q) for 0 <= p <= q, by Bhaskara's rational approximation.
HalfSin(p, q) == (32000 * p * (q - 2 * p)) \div (5 * q * q - 8 * p * (q - 2 * p))
SinMilli(p, q) ==
    IF q = 0 THEN 0
    ELSE IF 2 * p <= q THEN HalfSin(p, q) ELSE 0 - HalfSin(2 * p - q, 2 * q)

\* np.sin(np.linspace(0, 2*np.pi, 24, endpoint=False)) * 0.3 + 1, tiled (percent)
tiled_daily_pattern(i) == 100 + (30 * SinMilli((i - 1) % 24, 24)) \div 1000
\* np.sin(np.linspace(0, 2*np.pi, n_hours)) * 0.2 + 1
seasonal_pattern(i) == 100 + (20 * SinMilli(i - 1, n_buckets - 1)) \div 1000

initialize_demand ==
    [r \in Range(regions) |->
        [i \in DOMAIN time_index |->
            base_demand[r] * tiled_daily_pattern(i) * seasonal_pattern(i)]]

\* --------------------------------------------------------- random stream
\* np.random.normal(0, 0.05, n), in percent: the deviations the stream yields
\* in turn; the normal distribution is unbounded, so both clip bounds can be
\* crossed.
NoiseValues == <<0, 5, -5, -20, 90>>
Noise(k) == NoiseValues[(k % Len(NoiseValues)) + 1]

\* np.clip(x, lo, hi)
clip(x, lo, hi) == IF x < lo THEN lo ELSE IF x > hi THEN hi ELSE x

\* ---------------------------------------------------- simulate_generation
\* The first technology, in dict order, whose entry has no 'capacity_factor':
\* the lookup at line 138 raises KeyError there. Len + 1 when there is none.
FirstWithoutCapacityFactor ==
    LET missing == {ti \in DOMAIN technology_keys :
                       "capacity_factor" \notin DOMAIN technologies[technology_keys[ti]]}
    IN IF missing = {} THEN Len(technology_keys) + 1
       ELSE CHOOSE ti \in missing : \A tj \in missing : ti <= tj

\* The place of a column's technology and region in the two nested loops.
TechIndexOf(c) == CHOOSE ti \in DOMAIN technology_keys :
                     SubSeq(c, 1, Len(c) - 1) = technology_keys[ti]
RegionIndexOf(c) == CHOOSE ri \in DOMAIN regions : c[Len(c)] = regions[ri]

\* effective_cf without the clip: cf + cf_variation
effective_cf_unclipped(cf, variation) == cf + variation

\* np.clip(cf + cf_variation, 0, 1)
effective_cf(cf, variation) == clip(cf + variation, 0, 100)

\* capacity * effective_cf for one bucket of one column
GeneratedValue(cap, cf, variation) == Mul(cap, effective_cf(cf, variation))

\* simulate_generation(year) on the frames cap and gen with the random stream at
\* r: the generation frame, the stream and the exception it ends with.
simulate_generation(cap, gen, r, year) ==
    LET mask == YearMask(year)
        m == Cardinality(mask)
        first == IF mask = {} THEN 0 ELSE CHOOSE i \in mask : \A j \in mask : i <= j
        stop == FirstWithoutCapacityFactor
    IN [generation |->
            [c \in DOMAIN gen |->
                LET ti == TechIndexOf(c)
                    base == r + ((ti - 1) * Len(regions) + (RegionIndexOf(c) - 1)) * m - first
                IN IF ti < stop
                   THEN [i \in DOMAIN gen[c] |->
                           IF i \in mask
                           THEN GeneratedValue(cap[c][i],
                                    technologies[technology_keys[ti]].capacity_factor,
                                    Noise(base + i))
                           ELSE gen[c][i]]
                   ELSE gen[c]],
        rng |-> (r + (stop - 1) * Len(regions) * m) % Len(NoiseValues),
        raised |-> IF stop <= Len(technology_keys) THEN "KeyError" ELSE "none"]

\* ---------------------------------------------------------- add_capacity
\* add_capacity writing the whole column: the mask of line 163 dropped
AddCapacityMaskWholeColumn(year) == DOMAIN time_index

\* The buckets add_capacity writes and the value it writes into them.
AddCapacityMask(year) == FromYearMask(year)
AddCapacityValue(col, i, capacity_mw) == Add(col[1], capacity_mw * 100)

add_capacity(cap, technology, region, capacity_mw, year) ==
    LET c == Column(technology, region)
    IN [cap EXCEPT ![c] = [i \in DOMAIN cap[c] |->
                              IF i \in AddCapacityMask(year)
                              THEN AddCapacityValue(cap[c], i, capacity_mw)
                              ELSE cap[c][i]]]

\* ------------------------------------------------ calculate_renewable_share
renewable_technologies == <<solar_pv, wind, biomass>>

\* tech in col (substring), on token sequences
Contains(col, tech) ==
    \E k \in 0..(Len(col) - Len(tech)) : \A j \in DOMAIN tech : col[k + j] = tech[j]

renewable_columns(gen) ==
    {c \in DOMAIN gen : \E k \in DOMAIN renewable_technologies :
                            Contains(c, renewable_technologies[k])}

\* the guard of line 158 written as total_generation >= 0
ShareDefinedAtZero(total_generation) == total_generation >= 0

\* The guard of line 158: the share is a quotient only when it holds.
ShareDefined(total_generation) == total_generation > 0

\* The share as a fraction num/den; den = 0 stands for ZeroDivisionError.
calculate_renewable_share(gen, year) ==
    LET renewable_generation == FrameSum(gen, YearMask(year), renewable_columns(gen))
        total_generation == FrameSum(gen, YearMask(year), DOMAIN gen)
    IN IF ShareDefined(total_generation)
       THEN [num |-> renewable_generation, den |-> total_generation]
       ELSE [num |-> 0, den |-> 1]

\* ------------------------------------------------------------- actions
AddTechnologies == {solar_pv, wind}
AddRegions == {"Dhaka", "Sylhet"}
AddAmounts == {3, 5}
\* the years of the horizon and the first year after it
CallYears == start_year..(end_year + 1)

\* numpy's global stream is never seeded: it starts anywhere.
InitialStreams == 0..1

NoCall == [op |-> "init", technology |-> <<>>, region |-> "", capacity_mw |-> 0,
           year |-> 0, raised |-> "none"]

EnergyInit ==
    /\ capacity = set_initial_capacity(EmptyFrame(columns))
    /\ generation = EmptyFrame(columns)
    /\ demand = initialize_demand
    /\ rng \in InitialStreams
    /\ last = NoCall
    /\ calls = 0

AddCapacity ==
    /\ calls < MaxCalls
    /\ \E technology \in AddTechnologies, region \in AddRegions,
          capacity_mw \in AddAmounts, year \in CallYears :
        /\ capacity' = add_capacity(capacity, technology, region, capacity_mw, year)
        /\ last' = [op |-> "add_capacity", technology |-> technology, region |-> region,
                    capacity_mw |-> capacity_mw, year |-> year, raised |-> "none"]
    /\ calls' = calls + 1
    /\ UNCHANGED <<generation, demand, rng>>
    /\ UNCHANGED runnerVars
    /\ UNCHANGED modelVars

SimulateGeneration ==
    /\ calls < MaxCalls
    /\ \E year \in CallYears :
        LET res == simulate_generation(capacity, generation, rng, year)
        IN /\ generation' = res.generation
           /\ rng' = res.rng
           /\ last' = [NoCall EXCEPT !.op = "simulate_generation", !.year = year,
                                     !.raised = res.raised]
    /\ calls' = calls + 1
    /\ UNCHANGED <<capacity, demand>>
    /\ UNCHANGED runnerVars
    /\ UNCHANGED modelVars

\* ====================================================================
\* SimulationConfig (config/simulation_config.py): numbers in 1/10000 of
\* the unit the source gives them in.
\* ====================================================================
natural_gas == <<"natural", "gas">>
coal == <<"coal">>

START_YEAR == start_year
END_YEAR == end_year

DefaultTable(field) ==
    CASE field = "RENEWABLE_TARGETS" ->
            (2030 :> 1500) @@ (2041 :> 4000) @@ (2050 :> 10000)
      [] field = "TECHNOLOGIES" ->
            (solar_pv :> [capacity_factor |-> 1800, capex |-> 8000000, opex |-> 150000])
         @@ (wind :> [capacity_factor |-> 2500, capex |-> 12000000, opex |-> 300000])
         @@ (biomass :> [capacity_factor |-> 7000, capex |-> 25000000, opex |-> 1000000])
         @@ (natural_gas :> [capacity_factor |-> 8500, capex |-> 10000000, opex |-> 500000])
         @@ (coal :> [capacity_factor |-> 8000, capex |-> 20000000, opex |-> 800000])
      [] field = "ECONOMIC_PARAMS" ->
            [discount_rate |-> 800, inflation_rate |-> 500, carbon_price |-> 500000,
             opex_escalation |-> 200]
      [] field = "POLICY_PARAMS" ->
            [renewable_incentives |->
                (solar_pv :> 1000) @@ (wind :> 1500) @@ (biomass :> 2000),
             grid_connection_fee |-> 10000000]

ConfigFields == {"RENEWABLE_TARGETS", "TECHNOLOGIES", "ECONOMIC_PARAMS", "POLICY_PARAMS"}

\* The dict object a class-level default of SimulationConfig is.
ClassDefault(field) == <<"SimulationConfig", field>>

\* SimulationConfig(): the generated __init__ binds every attribute of the new
\* instance to the class-level default object itself.
SimulationConfig == [field \in ConfigFields |-> ClassDefault(field)]

\* The tables an instance with attributes a reads in heap h.
ConfigSeen(h, a) == [field \in ConfigFields |-> h[a[field]]]

\* x *= num/den
Times(x, num, den) == (x * num) \div den

\* ====================================================================
\* Scenario (run_scenarios.py)
\* ====================================================================
ScenarioNames == {"Baseline", "Accelerated Transition", "Delayed Transition"}

scaled_technologies == <<solar_pv, wind, biomass>>

\* The in-place updates of lines 153-159 and 180-186 on the tables that the
\* attributes a refer to: capex and opex by cost/10, incentives by incentive/10.
ScaleTables(h, a, cost, incentive) ==
    [h EXCEPT
        ![a.TECHNOLOGIES] =
            [tech \in DOMAIN @ |->
                IF tech \in Range(scaled_technologies)
                THEN [@[tech] EXCEPT !.capex = Times(@, cost, 10),
                                     !.opex = Times(@, cost, 10)]
                ELSE @[tech]],
        ![a.POLICY_PARAMS] =
            [@ EXCEPT !.renewable_incentives =
                [tech \in DOMAIN @ |-> Times(@[tech], incentive, 10)]]]

\* modify_config of the scenario called name, on heap h and the attributes a of
\* its config: the heap and the attributes afterwards.
modify_config(name, h, a) ==
    CASE name = "Accelerated Transition" ->
            LET targets == <<name, "RENEWABLE_TARGETS">>
                a2 == [a EXCEPT !.RENEWABLE_TARGETS = targets]
                h2 == (targets :> ((2030 :> 2500) @@ (2041 :> 6000) @@ (2050 :> 10000))) @@ h
            IN [heap |-> ScaleTables(h2, a2, 8, 15), attrs |-> a2]
      [] name = "Delayed Transition" ->
            LET targets == <<name, "RENEWABLE_TARGETS">>
                a2 == [a EXCEPT !.RENEWABLE_TARGETS = targets]
                h2 == (targets :> ((2030 :> 1000) @@ (2041 :> 3000) @@ (2050 :> 8000))) @@ h
            IN [heap |-> ScaleTables(h2, a2, 12, 8), attrs |-> a2]
      [] OTHER -> [heap |-> h, attrs |-> a]

\* ------------------------------------------------------ get_system_summary
\* x.split('_')[0] of a column name, as a name of one token
GroupKey(c) == <<Head(c)>>

get_system_summary(cap, gen, year) ==
    LET at_year_end == {i \in DOMAIN time_index : time_index[i] = YearEnd(year)}
        keys == {GroupKey(c) : c \in DOMAIN cap}
        group(k) == {c \in DOMAIN cap : GroupKey(c) = k}
    IN IF at_year_end = {}
       THEN [raised |-> "KeyError"]
       ELSE LET i == CHOOSE x \in at_year_end : TRUE
            IN [raised |-> "none",
                total_capacity |-> FrameSum(cap, YearMask(year), DOMAIN cap),
                total_generation |-> FrameSum(gen, YearMask(year), DOMAIN gen),
                renewable_share |-> calculate_renewable_share(gen, year),
                capacity_by_technology |->
                    [k \in keys |-> SumOver([c \in group(k) |-> cap[c][i]], group(k))],
                generation_by_technology |->
                    [k \in keys |-> FrameSum(gen, YearMask(year), group(k))]]

\* The technologies calculate_capex has a base cost for (economic_model.py).
base_cost_technologies ==
    {solar_pv, wind, biomass, battery_storage, <<"transmission">>, <<"distribution">>}

\* ------------------------------------------------------------ annual loop
\* One pass of the loop body of Scenario.run / run_base_case after
\* simulate_generation: the summary, the cost lookups of the technologies with
\* positive capacity, and the columns year, renewable_share, total_capacity and
\* total_generation of the row appended.
AnnualRow(cap, gen, year) ==
    LET summary == get_system_summary(cap, gen, year)
    IN IF summary.raised # "none" THEN [raised |-> summary.raised]
       ELSE IF \E k \in DOMAIN summary.capacity_by_technology :
                  summary.capacity_by_technology[k] > 0 /\ k \notin base_cost_technologies
       THEN [raised |-> "KeyError"]
       ELSE [raised |-> "none",
             row |-> [year |-> year,
                      renewable_share |-> summary.renewable_share,
                      total_capacity |->
                          SumOver(summary.capacity_by_technology,
                                  DOMAIN summary.capacity_by_technology),
                      total_generation |->
                          SumOver(summary.generation_by_technology,
                                  DOMAIN summary.generation_by_technology)]]

RECURSIVE annual_loop(_, _, _, _, _)
\* for year in range(START_YEAR, END_YEAR + 1): ..., from year on, on a private
\* EnergySystem; an exception ends the loop and no table is returned.
annual_loop(cap, gen, r, year, rows) ==
    IF year > END_YEAR
    THEN [raised |-> "none", rows |-> rows, rng |-> r]
    ELSE LET sim == simulate_generation(cap, gen, r, year)
             step == AnnualRow(cap, sim.generation, year)
         IN IF sim.raised # "none"
            THEN [raised |-> sim.raised, rows |-> <<>>, rng |-> sim.rng]
            ELSE IF step.raised # "none"
            THEN [raised |-> step.raised, rows |-> <<>>, rng |-> sim.rng]
            ELSE annual_loop(cap, sim.generation, sim.rng, year + 1,
                             Append(rows, step.row))

\* EnergySystem(EnergySystemConfig()) followed by the annual loop, for each
\* position r the random stream can be at when the run starts
annual_loop_from[r \in 0..(Len(NoiseValues) - 1)] ==
    annual_loop(set_initial_capacity(EmptyFrame(columns)), EmptyFrame(columns),
                r, START_YEAR, <<>>)

run_annual_loop(r) == annual_loop_from[r]

NotRun == [raised |-> "not run", rows |-> <<>>, seed |-> 0, config |-> <<>>, run_no |-> 0]

\* Scenario.run() of the scenario called name
ScenarioRun(name) ==
    /\ runs < MaxRuns
    /\ LET modified == modify_config(name, heap, attrs[name])
           loop == run_annual_loop(rng)
       IN /\ heap' = modified.heap
          /\ attrs' = [attrs EXCEPT ![name] = modified.attrs]
          /\ results' = [results EXCEPT ![name] =
                            [raised |-> loop.raised, rows |-> loop.rows, seed |-> rng,
                             config |-> ConfigSeen(modified.heap, modified.attrs),
                             run_no |-> runs + 1]]
          /\ rng' = loop.rng
    /\ runs' = runs + 1
    /\ UNCHANGED <<base_results, sweep, sweeps>>
    /\ UNCHANGED energyVars
    /\ UNCHANGED modelVars

\* np.random.seed(seed) by the caller of the runner: numpy's global stream is
\* set to the position the seed determines (the runners never seed it).
SeedStream ==
    /\ \E seed \in 0..(Len(NoiseValues) - 1) : rng' = seed
    /\ UNCHANGED runnerVars
    /\ UNCHANGED energyVars
    /\ UNCHANGED modelVars

\* ====================================================================
\* SensitivityAnalysis (run_sensitivity.py)
\* ====================================================================
Analysis == "SensitivityAnalysis"

recognised_parameters ==
    {"discount_rate", "inflation_rate", "carbon_price",
     "solar_capex", "wind_capex", "biomass_capex",
     "solar_capacity_factor", "wind_capacity_factor", "biomass_capacity_factor"}

\* _modify_parameter on the tables the attributes a refer to (the parameter is
\* a recognised one; the else branch raises ValueError).
modify_parameter(h, a, parameter, value) ==
    CASE parameter = "discount_rate" ->
            [h EXCEPT ![a.ECONOMIC_PARAMS].discount_rate = value]
      [] parameter = "inflation_rate" ->
            [h EXCEPT ![a.ECONOMIC_PARAMS].inflation_rate = value]
      [] parameter = "carbon_price" ->
            [h EXCEPT ![a.ECONOMIC_PARAMS].carbon_price = value]
      [] parameter = "solar_capex" ->
            [h EXCEPT ![a.TECHNOLOGIES][solar_pv].capex = value]
      [] parameter = "wind_capex" ->
            [h EXCEPT ![a.TECHNOLOGIES][wind].capex = value]
      [] parameter = "biomass_capex" ->
            [h EXCEPT ![a.TECHNOLOGIES][biomass].capex = value]
      [] parameter = "solar_capacity_factor" ->
            [h EXCEPT ![a.TECHNOLOGIES][solar_pv].capacity_factor = value]
      [] parameter = "wind_capacity_factor" ->
            [h EXCEPT ![a.TECHNOLOGIES][wind].capacity_factor = value]
      [] parameter = "biomass_capacity_factor" ->
            [h EXCEPT ![a.TECHNOLOGIES][biomass].capacity_factor = value]

\* The rest of one pass of the loop body, once _modify_parameter has left the
\* heap h2 and run_base_case has ended as run: the target year's row is looked
\* up and appended to the table so far.
sensitivity_row(parameter, value, target_year, a, so_far, h2, run) ==
    LET seen == Append(so_far.in_effect,
                       [parameter |-> parameter, value |-> value,
                        config |-> ConfigSeen(h2, a)])
        at_target == SelectSeq(run.rows, LAMBDA row : row.year = target_year)
    IN IF run.raised # "none"
       THEN [heap |-> h2, rng |-> run.rng, raised |-> run.raised,
             names |-> "capacity_factor", returned |-> FALSE, table |-> <<>>,
             in_effect |-> seen]
       ELSE IF at_target = <<>>
       THEN [heap |-> h2, rng |-> run.rng, raised |-> "IndexError", names |-> "",
             returned |-> FALSE, table |-> <<>>, in_effect |-> seen]
       ELSE [heap |-> h2, rng |-> run.rng, raised |-> "none", names |-> "",
             returned |-> TRUE,
             table |-> Append(so_far.table,
                              [value |-> value,
                               renewable_share |-> at_target[1].renewable_share]),
             in_effect |-> seen]

\* One pass of the loop body for the candidate value, from the outcome so far:
\* _modify_parameter (ValueError for a parameter it does not know), then
\* run_base_case, then the row.
sensitivity_step(parameter, value, target_year, a, so_far) ==
    IF parameter \notin recognised_parameters
    THEN [so_far EXCEPT !.raised = "ValueError", !.names = parameter,
                        !.returned = FALSE, !.table = <<>>]
    ELSE sensitivity_row(parameter, value, target_year, a, so_far,
                         modify_parameter(so_far.heap, a, parameter, value),
                         run_annual_loop(so_far.rng))

\* for value in values: ... of run_sensitivity_analysis, on heap h with the
\* stream at r and the config attributes a: the heap and stream it leaves, the
\* exception that ended it (and the parameter its message names), the table
\* returned, and the configuration in effect at each rerun. An exception ends
\* the loop.
sensitivity_loop(parameter, values, target_year, h, r, a) ==
    LET after[k \in 0..Len(values)] ==
            IF k = 0
            THEN [heap |-> h, rng |-> r, raised |-> "none", names |-> "",
                  returned |-> TRUE, table |-> <<>>, in_effect |-> <<>>]
            ELSE IF after[k - 1].raised # "none"
            THEN after[k - 1]
            ELSE sensitivity_step(parameter, values[k], target_year, a, after[k - 1])
    IN after[Len(values)]

NoSweep == [parameter |-> "", values |-> <<>>, raised |-> "not run", names |-> "",
            returned |-> FALSE, table |-> <<>>, in_effect |-> <<>>]

\* run_base_case()
RunBaseCase ==
    /\ runs < MaxRuns
    /\ LET loop == run_annual_loop(rng)
       IN /\ base_results' = IF loop.raised = "none" THEN loop.rows ELSE base_results
          /\ rng' = loop.rng
    /\ runs' = runs + 1
    /\ UNCHANGED <<heap, attrs, results, sweep, sweeps>>
    /\ UNCHANGED energyVars
    /\ UNCHANGED modelVars

SweepParameters == {"discount_rate", "solar_capex", "wind_capacity_factor", "carbon_tax"}
CandidateValues == {500, 1200}

RECURSIVE SeqsUpTo(_, _)
SeqsUpTo(S, n) ==
    IF n = 0 THEN {<<>>}
    ELSE LET shorter == SeqsUpTo(S, n - 1)
         IN shorter \cup {Append(q, x) : q \in shorter, x \in S}

\* run_sensitivity_analysis(parameter, values), target_year defaulted
RunSensitivityAnalysis ==
    /\ sweeps < MaxSweeps
    /\ \E parameter \in SweepParameters, values \in SeqsUpTo(CandidateValues, MaxValues) :
        \E res \in {sensitivity_loop(parameter, values, END_YEAR, heap, rng, attrs[Analysis])} :
           /\ heap' = res.heap
           /\ rng' = res.rng
           /\ sweep' = [parameter |-> parameter, values |-> values, raised |-> res.raised,
                        names |-> res.names, returned |-> res.returned,
                        table |-> res.table, in_effect |-> res.in_effect]
    /\ sweeps' = sweeps + 1
    /\ UNCHANGED <<attrs, results, runs, base_results>>
    /\ UNCHANGED energyVars
    /\ UNCHANGED modelVars

\* ====================================================================
\* EnergySystem under another configuration, and names as callers give them
\* ====================================================================
\* len(pd.date_range(start=f"{first_year}-01-01", end=f"{last_year}-12-31",
\* freq)): the index is empty when the end precedes the start.
date_range_len(first_year, last_year) ==
    LET span == (last_year - first_year) * BucketsPerYear + BucketsPerYear - 1
    IN IF span > 0 THEN span ELSE 0

\* EnergySystem(EnergySystemConfig(start_year=first_year, end_year=last_year)):
\* __init__ builds the index, initialize_system the frames on it, and
\* set_initial_capacity assigns .iloc[0] of each solar column, which raises
\* IndexError (iloc cannot enlarge its target object) on an empty column.
EnergySystem(first_year, last_year) ==
    LET n_hours == date_range_len(first_year, last_year)
    IN [raised |-> IF n_hours = 0 THEN "IndexError" ELSE "none", n_hours |-> n_hours]

\* simulate() on a constructed system: the years of range(start_year,
\* end_year + 1) summarised in turn; simulate_generation raises at the first
\* technology without a capacity factor.
simulate(first_year, last_year) ==
    IF first_year > last_year
    THEN [raised |-> "none", years |-> <<>>]
    ELSE IF FirstWithoutCapacityFactor <= Len(technology_keys)
    THEN [raised |-> "KeyError", years |-> <<>>]
    ELSE [raised |-> "none",
          years |-> [k \in 1..(last_year - first_year + 1) |-> first_year + k - 1]]

NotCalled == [raised |-> "not called", years |-> <<>>]

\* the year ranges a system is configured with: the end before, at and after
\* the start
ConfiguredYears == (start_year - 1)..(start_year + 1)

\* EnergySystem(EnergySystemConfig(start_year, end_year)).simulate()
ConstructAndSimulate ==
    /\ \E first_year, last_year \in ConfiguredYears :
          LET built == EnergySystem(first_year, last_year)
          IN probe' = [op |-> "EnergySystem", start_year |-> first_year,
                       end_year |-> last_year, raised |-> built.raised,
                       n_hours |-> built.n_hours,
                       simulate |-> IF built.raised = "none"
                                    THEN simulate(first_year, last_year)
                                    ELSE NotCalled]
    /\ UNCHANGED <<rng>>
    /\ UNCHANGED energyVars
    /\ UNCHANGED runnerVars

\* f"{technology}_{region}" for names given as their '_'-separated tokens
JoinedColumn(technology, region) == technology \o region

\* the names the configuration holds
ConfiguredTechnology(technology) == technology \in Range(technology_keys)
ConfiguredRegion(region) == \E r \in Range(regions) : region = <<r>>

\* add_capacity for any two names: self.capacity[f"{technology}_{region}"] is
\* read first and raises KeyError when the frame has no such column; nothing
\* has been written by then.
add_capacity_named(cap, technology, region, capacity_mw, year) ==
    LET col == JoinedColumn(technology, region)
    IN IF col \notin DOMAIN cap
       THEN [raised |-> "KeyError", capacity |-> cap]
       ELSE [raised |-> "none",
             capacity |-> add_capacity(cap, SubSeq(col, 1, Len(col) - 1), col[Len(col)],
                                       capacity_mw, year)]

\* 'solar_pv', 'wind', 'solar', 'hydro'; 'Dhaka', 'pv_Dhaka', 'Comilla'
NamedTechnologies == {solar_pv, wind, <<"solar">>, <<"hydro">>}
NamedRegions == {<<"Dhaka">>, <<"pv", "Dhaka">>, <<"Comilla">>}
NamedAmounts == {5}
NamedYears == {start_year, start_year + 1}

\* add_capacity(technology, region, capacity_mw, year) with names of any kind
AddCapacityByName ==
    /\ calls < MaxCalls
    /\ \E technology \in NamedTechnologies, region \in NamedRegions,
          capacity_mw \in NamedAmounts, year \in NamedYears :
          LET res == add_capacity_named(capacity, technology, region, capacity_mw, year)
          IN /\ capacity' = res.capacity
             /\ probe' = [op |-> "add_capacity", technology |-> technology,
                          region |-> region, capacity_mw |-> capacity_mw,
                          year |-> year, raised |-> res.raised]
    /\ calls' = calls + 1
    /\ UNCHANGED <<generation, demand, rng, last>>
    /\ UNCHANGED runnerVars

\* ====================================================================
\* EconomicModel (models/economic_model.py): money in 1000 USD, rates and
\* growth factors in 1/1000.
\* ====================================================================
transmission == <<"transmission">>
distribution == <<"distribution">>
hydro == <<"hydro">>

\* EconomicConfig(), the rates as 1/1000
EconomicConfig == [discount_rate |-> 80, inflation_rate |-> 50, opex_escalation |-> 20,
                   carbon_price |-> 50]

RECURSIVE PowMilli(_, _)
\* (x / 1000) ** n for an integer n, as 1/1000, rounded down at each factor
PowMilli(x, n) ==
    IF n = 0 THEN 1000
    ELSE IF n < 0 THEN 1000000 \div PowMilli(x, 0 - n)
    ELSE (PowMilli(x, n - 1) * x) \div 1000

\* 1000 * sqrt(x / 1000), rounded down
SqrtMilli(x) == CHOOSE r \in 0..2000 : r * r <= x * 1000 /\ (r + 1) * (r + 1) > x * 1000

\* (x / 1000) ** (n / 2) for an integer n, as 1/1000
PowHalfMilli(x, n) ==
    LET m == IF n < 0 THEN 0 - n ELSE n
        whole == PowMilli(x, m \div 2)
        up == IF m % 2 = 1 THEN (whole * SqrtMilli(x)) \div 1000 ELSE whole
    IN IF n < 0 THEN 1000000 \div up ELSE up

\* base_costs of calculate_capex, 1000 USD per MW (MWh, km)
base_costs ==
    (solar_pv :> 800) @@ (wind :> 1200) @@ (biomass :> 2000)
 @@ (battery_storage :> 200) @@ (transmission :> 500) @@ (distribution :> 200)

\* the technologies the if of calculate_capex names
learning_curve_technologies == {solar_pv, wind, battery_storage}

\* cost_reduction = (1 - learning_rate) ** (years_since_2020 / 2)
LearningReduction(year) == PowHalfMilli(1000 - 200, year - 2020)

\* the inflated cost charged per started block of 10 MW: capacity_mw // 10
CapexAtPerTenMW(base_cost, cost_reduction, capacity_mw, year) ==
    LET reduced == (base_cost * cost_reduction) \div 1000
        inflated_cost == (reduced * PowMilli(1000 + EconomicConfig.inflation_rate,
                                             year - 2024)) \div 1000
    IN inflated_cost * (capacity_mw \div 10)

\* base_cost * cost_reduction, inflated from 2024 to year, times capacity_mw
CapexAt(base_cost, cost_reduction, capacity_mw, year) ==
    LET reduced == (base_cost * cost_reduction) \div 1000
        inflated_cost == (reduced * PowMilli(1000 + EconomicConfig.inflation_rate,
                                             year - 2024)) \div 1000
    IN inflated_cost * capacity_mw

\* calculate_capex(technology, capacity_mw, year); base_costs[technology]
\* raises KeyError for a technology the table does not hold.
calculate_capex(technology, capacity_mw, year) ==
    IF technology \notin DOMAIN base_costs
    THEN [raised |-> "KeyError", value |-> 0]
    ELSE [raised |-> "none",
          value |-> CapexAt(base_costs[technology],
                            IF technology \in learning_curve_technologies
                            THEN LearningReduction(year) ELSE 1000,
                            capacity_mw, year)]

\* opex_rates of calculate_opex, 1/1000 of capex
opex_rates ==
    (solar_pv :> 10) @@ (wind :> 15) @@ (biomass :> 20)
 @@ (battery_storage :> 20) @@ (transmission :> 10) @@ (distribution :> 15)

\* calculate_opex(technology, capacity_mw, year): calculate_capex first, then
\* opex_rates[technology], then the escalation from 2024.
calculate_opex(technology, capacity_mw, year) ==
    LET capex == calculate_capex(technology, capacity_mw, year)
    IN IF capex.raised # "none" THEN capex
       ELSE IF technology \notin DOMAIN opex_rates
       THEN [raised |-> "KeyError", value |-> 0]
       ELSE LET base_opex == (capex.value * opex_rates[technology]) \div 1000
            IN [raised |-> "none",
                value |-> (base_opex * PowMilli(1000 + EconomicConfig.opex_escalation,
                                                year - 2024)) \div 1000]

\* the arguments the cost functions are called with
CostTechnologies == DOMAIN base_costs \cup {natural_gas, hydro}
CostCapacities == {0, 1, 100}
CostYears == {2020, 2024, 2025, 2026}

\* EconomicModel(EconomicConfig()).calculate_capex(technology, capacity_mw, year)
CalculateCapex ==
    /\ probe = NoProbe
    /\ \E technology \in CostTechnologies, capacity_mw \in CostCapacities,
          year \in CostYears :
          LET res == calculate_capex(technology, capacity_mw, year)
          IN probe' = [op |-> "calculate_capex", technology |-> technology,
                       capacity_mw |-> capacity_mw, year |-> year,
                       raised |-> res.raised, value |-> res.value]
    /\ UNCHANGED <<rng>>
    /\ UNCHANGED energyVars
    /\ UNCHANGED runnerVars

\* EconomicModel(EconomicConfig()).calculate_opex(technology, capacity_mw, year)
CalculateOpex ==
    /\ probe = NoProbe
    /\ \E technology \in CostTechnologies, capacity_mw \in CostCapacities,
          year \in CostYears :
          LET res == calculate_opex(technology, capacity_mw, year)
          IN probe' = [op |-> "calculate_opex", technology |-> technology,
                       capacity_mw |-> capacity_mw, year |-> year,
                       raised |-> res.raised, value |-> res.value]
    /\ UNCHANGED <<rng>>
    /\ UNCHANGED energyVars
    /\ UNCHANGED runnerVars

\* ------------------------------------------------------- calculate_lcoe
\* lifetimes of calculate_lcoe, years
lifetimes == (solar_pv :> 25) @@ (wind :> 20) @@ (biomass :> 20) @@ (battery_storage :> 10)

RECURSIVE PresentValue(_, _)
\* sum(amount / (1 + discount_rate) ** t for t in range(1, lifetime + 1))
PresentValue(amount, lifetime) ==
    IF lifetime = 0 THEN 0
    ELSE PresentValue(amount, lifetime - 1)
            + (amount * 1000) \div PowMilli(1000 + EconomicConfig.discount_rate, lifetime)

\* numerator / denominator on floats, the quotient in 1/1000. A zero
\* denominator raises ZeroDivisionError on Python floats; when an operand is a
\* numpy.float64 the division warns and yields inf, or nan for 0 / 0.
Divide(numerator, denominator, numpy) ==
    IF denominator # 0
    THEN [raised |-> "none", float |-> "finite",
          value |-> (numerator * 1000) \div denominator]
    ELSE IF ~numpy
    THEN [raised |-> "ZeroDivisionError", float |-> "none", value |-> 0]
    ELSE [raised |-> "none", float |-> IF numerator = 0 THEN "nan" ELSE "inf",
          value |-> 0]

\* calculate_lcoe(technology, capacity_mw, annual_generation_mwh, year); numpy
\* tells whether capacity_mw and annual_generation_mwh are numpy.float64, as
\* values taken from a frame are, or Python numbers.
calculate_lcoe(technology, capacity_mw, annual_generation_mwh, year, numpy) ==
    IF technology \notin DOMAIN lifetimes
    THEN [raised |-> "KeyError", float |-> "none", value |-> 0]
    ELSE LET lifetime == lifetimes[technology]
             capex == calculate_capex(technology, capacity_mw, year)
             annual_opex == calculate_opex(technology, capacity_mw, year)
         IN IF capex.raised # "none" \/ annual_opex.raised # "none"
            THEN [raised |-> "KeyError", float |-> "none", value |-> 0]
            ELSE Divide(capex.value + PresentValue(annual_opex.value, lifetime),
                        PresentValue(annual_generation_mwh, lifetime), numpy)

LcoeTechnologies == DOMAIN lifetimes \cup {transmission, hydro}
LcoeGenerations == {0, 1000, 50000}

\* EconomicModel(EconomicConfig()).calculate_lcoe(technology, capacity_mw,
\* annual_generation_mwh, year)
CalculateLcoe ==
    /\ probe = NoProbe
    /\ \E technology \in LcoeTechnologies, capacity_mw \in CostCapacities,
          annual_generation_mwh \in LcoeGenerations, year \in CostYears,
          numpy \in BOOLEAN :
          LET res == calculate_lcoe(technology, capacity_mw, annual_generation_mwh,
                                    year, numpy)
          IN probe' = [op |-> "calculate_lcoe", technology |-> technology,
                       capacity_mw |-> capacity_mw,
                       annual_generation_mwh |-> annual_generation_mwh,
                       year |-> year, numpy |-> numpy, raised |-> res.raised,
                       float |-> res.float, value |-> res.value]
    /\ UNCHANGED <<rng>>
    /\ UNCHANGED energyVars
    /\ UNCHANGED runnerVars

\* ------------------------------------------------ calculate_payback_period
\* Length of the cash-flow series a payback period is asked for.
MaxFlows == 3

\* the test of line 162 written as cumulative_cash_flow > initial_investment
RecoveredStrictly(cumulative_cash_flow, initial_investment) ==
    cumulative_cash_flow > initial_investment

\* if cumulative_cash_flow >= initial_investment
Recovered(cumulative_cash_flow, initial_investment) ==
    cumulative_cash_flow >= initial_investment

RECURSIVE payback_from(_, _, _, _)
\* the for loop of calculate_payback_period from the 1-based index year on;
\* falling out of the loop returns float('inf')
payback_from(initial_investment, annual_cash_flows, year, cumulative_cash_flow) ==
    IF year > Len(annual_cash_flows)
    THEN [infinite |-> TRUE, year |-> 0]
    ELSE LET cumulative == cumulative_cash_flow + annual_cash_flows[year]
         IN IF Recovered(cumulative, initial_investment)
            THEN [infinite |-> FALSE, year |-> year]
            ELSE payback_from(initial_investment, annual_cash_flows, year + 1, cumulative)

calculate_payback_period(initial_investment, annual_cash_flows) ==
    payback_from(initial_investment, annual_cash_flows, 1, 0)

CashFlows == {-2, 0, 3, 5}
Investments == {-1, 0, 4, 8}

\* EconomicModel(EconomicConfig()).calculate_payback_period(initial_investment,
\* annual_cash_flows)
CalculatePaybackPeriod ==
    /\ probe = NoProbe
    /\ \E initial_investment \in Investments,
          annual_cash_flows \in SeqsUpTo(CashFlows, MaxFlows) :
          LET res == calculate_payback_period(initial_investment, annual_cash_flows)
          IN probe' = [op |-> "calculate_payback_period",
                       initial_investment |-> initial_investment,
                       annual_cash_flows |-> annual_cash_flows,
                       infinite |-> res.infinite, year |-> res.year]
    /\ UNCHANGED <<rng>>
    /\ UNCHANGED energyVars
    /\ UNCHANGED runnerVars

\* ====================================================================
\* EnvironmentalModel (models/environmental_model.py) and the helpers of
\* utils/helpers.py: emission and water factors in 1/1000, land use factors
\* in m2 per MW.
\* ====================================================================
oil == <<"oil">>

\* EnvironmentalConfig(): the tables __post_init__ fills in
EnvironmentalConfig ==
    [emission_factors |->
        (natural_gas :> 500) @@ (coal :> 1000) @@ (oil :> 800) @@ (biomass :> 100)
     @@ (solar_pv :> 50) @@ (wind :> 20) @@ (battery_storage :> 100),
     water_factors |->
        (natural_gas :> 500) @@ (coal :> 1500) @@ (oil :> 800) @@ (biomass :> 300)
     @@ (solar_pv :> 100) @@ (wind :> 0) @@ (battery_storage :> 0),
     land_use_factors |->
        (solar_pv :> 2000) @@ (wind :> 5000) @@ (biomass :> 1000)
     @@ (battery_storage :> 100)]

\* generation_mwh * 1000 * emission_factors[technology] if the table holds
\* the technology, else 0.0
EnvironmentalModel_calculate_emissions(config, technology, generation_mwh) ==
    IF technology \in DOMAIN config.emission_factors
    THEN generation_mwh * 1000 * config.emission_factors[technology]
    ELSE 0

EnvironmentalModel_calculate_water_use(config, technology, generation_mwh) ==
    IF technology \in DOMAIN config.water_factors
    THEN generation_mwh * config.water_factors[technology]
    ELSE 0

EnvironmentalModel_calculate_land_use(config, technology, capacity_mw) ==
    IF technology \in DOMAIN config.land_use_factors
    THEN capacity_mw * config.land_use_factors[technology]
    ELSE 0

\* table.get(key, default) with the default ignored: 1 for a missing key
GetOne(table, key, default) == IF key \in DOMAIN table THEN table[key] ELSE 1

\* dict.get(key, default)
Get(table, key, default) == IF key \in DOMAIN table THEN table[key] ELSE default

\* helpers.calculate_emissions / calculate_water_use / calculate_land_use
calculate_emissions(technology, generation_mwh, emission_factors) ==
    generation_mwh * Get(emission_factors, technology, 0)

calculate_water_use(technology, generation_mwh, water_factors) ==
    generation_mwh * Get(water_factors, technology, 0)

calculate_land_use(technology, capacity_mw, land_use_factors) ==
    capacity_mw * Get(land_use_factors, technology, 0)

\* the lookups, and the field of EnvironmentalConfig each one reads
EnvironmentalLookups == {"calculate_emissions", "calculate_water_use", "calculate_land_use"}

FactorField(lookup) ==
    CASE lookup = "calculate_emissions" -> "emission_factors"
      [] lookup = "calculate_water_use" -> "water_factors"
      [] lookup = "calculate_land_use" -> "land_use_factors"

\* the tables a lookup is made in: the default one and, for emissions, the
\* table {'coal': 0.8} of test_emissions_calculation
FactorTables(lookup) ==
    {EnvironmentalConfig[FactorField(lookup)]}
        \cup (IF lookup = "calculate_emissions" THEN {coal :> 800} ELSE {})

EnvironmentalTechnologies == {coal, solar_pv, wind, battery_storage, hydro, transmission}
EnvironmentalAmounts == {0, 5, 1000}

\* EnvironmentalModel(EnvironmentalConfig(<table>)).<lookup>(technology, amount)
EnvironmentalModelLookup ==
    /\ probe = NoProbe
    /\ \E lookup \in EnvironmentalLookups :
       \E table \in FactorTables(lookup), technology \in EnvironmentalTechnologies,
          amount \in EnvironmentalAmounts :
          LET config == [EnvironmentalConfig EXCEPT ![FactorField(lookup)] = table]
          IN probe' = [op |-> "EnvironmentalModel", lookup |-> lookup, table |-> table,
                       technology |-> technology, amount |-> amount, raised |-> "none",
                       value |->
                         CASE lookup = "calculate_emissions" ->
                                EnvironmentalModel_calculate_emissions(config, technology, amount)
                           [] lookup = "calculate_water_use" ->
                                EnvironmentalModel_calculate_water_use(config, technology, amount)
                           [] lookup = "calculate_land_use" ->
                                EnvironmentalModel_calculate_land_use(config, technology, amount)]
    /\ UNCHANGED <<rng>>
    /\ UNCHANGED energyVars
    /\ UNCHANGED runnerVars

\* helpers.<lookup>(technology, amount, table)
HelperLookup ==
    /\ probe = NoProbe
    /\ \E lookup \in EnvironmentalLookups :
       \E table \in FactorTables(lookup), technology \in EnvironmentalTechnologies,
          amount \in EnvironmentalAmounts :
          probe' = [op |-> "helpers", lookup |-> lookup, table |-> table,
                    technology |-> technology, amount |-> amount, raised |-> "none",
                    value |->
                      CASE lookup = "calculate_emissions" ->
                             calculate_emissions(technology, amount, table)
                        [] lookup = "calculate_water_use" ->
                             calculate_water_use(technology, amount, table)
                        [] lookup = "calculate_land_use" ->
                             calculate_land_use(technology, amount, table)]
    /\ UNCHANGED <<rng>>
    /\ UNCHANGED energyVars
    /\ UNCHANGED runnerVars

\* ------------------------------------------- helpers.calculate_hourly_demand
IsLeapYear(year) == (year % 4 = 0 /\ year % 100 # 0) \/ year % 400 = 0

\* len(pd.date_range(start=f'{year}-01-01', end=f'{year}-12-31 23:00:00',
\* freq='H')): every hour of the calendar year
HoursOfYear(year) == 24 * (IF IsLeapYear(year) THEN 366 ELSE 365)

\* demand[hour] for an hour of January 1 (dayofyear 1), loads in MW and the
\* variations in 1/1000:
\* min(base_demand * daily_pattern * seasonal_pattern, peak_demand)
HourlyDemandAt(base_load, peak_load, daily_variation, seasonal_variation, year, first_year, hour) ==
    LET annual_growth_factor == PowMilli(1060, year - first_year)
        base == (base_load * annual_growth_factor) \div 1000
        daily_pattern == 1000 + (SinMilli(hour, 24) * daily_variation) \div 1000
        seasonal == 1000 - (SinMilli(181, 365) * seasonal_variation) \div 1000
        hourly == (((base * daily_pattern) \div 1000) * seasonal) \div 1000
        peak_demand == (peak_load * annual_growth_factor) \div 1000
    IN IF hourly < peak_demand THEN hourly ELSE peak_demand

\* calculate_hourly_demand(...): the length of the array returned and its
\* values at 00:00 and 06:00 of January 1
calculate_hourly_demand(base_load, peak_load, daily_variation, seasonal_variation, year, first_year) ==
    [len |-> HoursOfYear(year),
     at_0 |-> HourlyDemandAt(base_load, peak_load, daily_variation,
                             seasonal_variation, year, first_year, 0),
     at_6 |-> HourlyDemandAt(base_load, peak_load, daily_variation,
                             seasonal_variation, year, first_year, 6)]

DemandYears == {2023, 2024, 2025, 2028}
BaseLoads == {1000, 1400}

\* calculate_hourly_demand(base_load, 1500, 0.2, 0.15, year), start_year
\* defaulted to 2024, as test_hourly_demand calls it
CalculateHourlyDemand ==
    /\ probe = NoProbe
    /\ \E base_load \in BaseLoads, year \in DemandYears :
          LET res == calculate_hourly_demand(base_load, 1500, 200, 150, year, 2024)
          IN probe' = [op |-> "calculate_hourly_demand", base_load |-> base_load,
                       year |-> year, len |-> res.len, at_0 |-> res.at_0,
                       at_6 |-> res.at_6]
    /\ UNCHANGED <<rng>>
    /\ UNCHANGED energyVars
    /\ UNCHANGED runnerVars

\* ------------------------------ what the models of run_base_case read
\* run_base_case builds EnergySystem(EnergySystemConfig()),
\* EconomicModel(EconomicConfig()) and EnvironmentalModel(EnvironmentalConfig()):
\* the value each sweep parameter has for the models of the rerun (rates in
\* 1/1000, capacity factors in percent, costs in 1000 USD per MW).
models_read(parameter) ==
    CASE parameter = "discount_rate" -> EconomicConfig.discount_rate
      [] parameter = "inflation_rate" -> EconomicConfig.inflation_rate
      [] parameter = "carbon_price" -> EconomicConfig.carbon_price
      [] parameter = "solar_capex" -> base_costs[solar_pv]
      [] parameter = "wind_capex" -> base_costs[wind]
      [] parameter = "biomass_capex" -> base_costs[biomass]
      [] parameter = "solar_capacity_factor" -> technologies[solar_pv].capacity_factor
      [] parameter = "wind_capacity_factor" -> technologies[wind].capacity_factor
      [] parameter = "biomass_capacity_factor" -> technologies[biomass].capacity_factor

\* ====================================================================
\* The body of the annual loops (run_scenarios.py, run_sensitivity.py,
\* main.py): the statements that follow simulate_generation(year), as a
\* function of the summary get_system_summary(year) returns. Capacities in
\* 1/100 MW, employment factors in 1/10 job per MW.
\* ====================================================================
Runners == {"Scenario.run", "run_base_case", "run_simulation"}

\* groupby(...).sum().to_dict(): the group keys in sorted order
group_order == <<<<"battery">>, <<"biomass">>, <<"solar">>, <<"wind">>>>
summary_keys(table) == SelectSeq(group_order, LAMBDA k : k \in DOMAIN table)

\* SOCIAL_PARAMS['employment_factors']
employment_factors ==
    (solar_pv :> 5) @@ (wind :> 3) @@ (biomass :> 10) @@ (natural_gas :> 2) @@ (coal :> 4)

\* for tech, capacity in capacity_by_technology.items(): if capacity > 0:
\* analyze_investment(tech, capacity, generation_by_technology.get(tech, 0), year)
\* -- the calls made, and the KeyError of base_costs[tech] that ends the loop.
investment_loop(summary) ==
    LET called == SelectSeq(summary_keys(summary.capacity_by_technology),
                            LAMBDA k : summary.capacity_by_technology[k] > 0)
    IN [calls |-> [j \in 1..Len(called) |->
                      [technology |-> called[j],
                       capacity_mw |-> summary.capacity_by_technology[called[j]],
                       annual_generation_mwh |->
                           Get(summary.generation_by_technology, called[j], 0)]],
        raised |-> IF \E j \in 1..Len(called) : called[j] \notin base_cost_technologies
                   THEN "KeyError" ELSE "none"]

\* for tech, generation in generation_by_technology.items(): the calls of
\* calculate_land_use(tech, capacity). Scenario.run and run_base_case bind
\* capacity = capacity_by_technology.get(tech, 0) in the loop; run_simulation
\* binds no capacity there, so the name still holds what the loop over
\* capacity_by_technology.items() left in it: the value of its last key.
land_use_calls(runner, summary) ==
    LET techs == summary_keys(summary.generation_by_technology)
        cap_keys == summary_keys(summary.capacity_by_technology)
        source(tech) == IF runner = "run_simulation" THEN cap_keys[Len(cap_keys)] ELSE tech
    IN [j \in 1..Len(techs) |->
           [technology |-> techs[j],
            capacity_of |-> source(techs[j]),
            capacity_mw |-> Get(summary.capacity_by_technology, source(techs[j]), 0),
            land_use |-> EnvironmentalModel_calculate_land_use(
                             EnvironmentalConfig, techs[j],
                             Get(summary.capacity_by_technology, source(techs[j]), 0))]]

\* for tech, capacity in capacity_by_technology.items(): if capacity > 0:
\* total_employment += calculate_employment(tech, capacity / 1000, factors).
\* Neither runner imports calculate_employment: the first call raises NameError.
employment_loop(summary) ==
    IF \E k \in DOMAIN summary.capacity_by_technology :
           summary.capacity_by_technology[k] > 0
    THEN [raised |-> "NameError", value |-> 0]
    ELSE [raised |-> "none", value |-> 0]

\* the body for one year: the investment loop, the environmental loop and,
\* in the two runners that have one, the employment loop
annual_body(runner, summary) ==
    LET inv == investment_loop(summary)
        emp == employment_loop(summary)
    IN IF inv.raised # "none"
       THEN [raised |-> inv.raised, investment_calls |-> inv.calls,
             land_use_calls |-> <<>>, employment |-> 0]
       ELSE IF runner = "run_simulation"
       THEN [raised |-> "none", investment_calls |-> inv.calls,
             land_use_calls |-> land_use_calls(runner, summary), employment |-> 0]
       ELSE [raised |-> emp.raised, investment_calls |-> inv.calls,
             land_use_calls |-> land_use_calls(runner, summary),
             employment |-> emp.value]

\* One pass of the body of runner's loop for year, on the summary of the
\* energy system as it is: as constructed, or after add_capacity.
AnnualPass ==
    /\ probe.op \in {"none", "add_capacity"}
    /\ \E runner \in Runners, year \in start_year..end_year :
        \E summary \in {get_system_summary(capacity, generation, year)} :
           /\ summary.raised = "none"
           /\ \E body \in {annual_body(runner, summary)} :
                 probe' = [op |-> "annual_pass", runner |-> runner, year |-> year,
                           capacity_by_technology |-> summary.capacity_by_technology,
                           raised |-> body.raised,
                           investment_calls |-> body.investment_calls,
                           land_use_calls |-> body.land_use_calls,
                           employment |-> body.employment]
    /\ UNCHANGED <<rng>>
    /\ UNCHANGED energyVars
    /\ UNCHANGED runnerVars

\* ====================================================================
\* Specifications
\* ====================================================================
vars == <<capacity, generation, demand, rng, last, calls,
          heap, attrs, results, runs, base_results, sweep, sweeps, probe>>

\* The state after the instances are constructed: one EnergySystem, the three
\* scenarios of run_scenarios() and one SensitivityAnalysis.
RunnerInit ==
    /\ heap = [ref \in {ClassDefault(f) : f \in ConfigFields} |-> DefaultTable(ref[2])]
    /\ attrs = [inst \in ScenarioNames \cup {Analysis} |-> SimulationConfig]
    /\ results = [name \in ScenarioNames |-> NotRun]
    /\ runs = 0
    /\ base_results = <<>>
    /\ sweep = NoSweep
    /\ sweeps = 0

ModelInit == probe = NoProbe

Init == EnergyInit /\ RunnerInit /\ ModelInit

\* calls on one EnergySystem
Next == AddCapacity \/ SimulateGeneration

Spec == Init /\ [][Next]_vars

\* the scenarios, run in any order and any number of times
ScenarioNext ==
    \/ \E name \in ScenarioNames : ScenarioRun(name)
    \/ SeedStream

SpecScenario == Init /\ [][ScenarioNext]_vars

\* the sensitivity runner
SensitivityNext == RunBaseCase \/ RunSensitivityAnalysis

SpecSensitivity == Init /\ [][SensitivityNext]_vars

\* calls on the models and helpers, and on an EnergySystem by name
ModelNext ==
    \/ ConstructAndSimulate
    \/ AddCapacityByName
    \/ CalculateCapex
    \/ CalculateOpex
    \/ CalculateLcoe
    \/ CalculatePaybackPeriod
    \/ CalculateHourlyDemand
    \/ AnnualPass
    \/ EnvironmentalModelLookup
    \/ HelperLookup

SpecModels == Init /\ [][ModelNext]_vars

\* ====================================================================
\* Claims about EnergySystem, checked under Spec
\* ====================================================================

\* The column the last call named.
LastColumn == Column(last.technology, last.region)
LastColumnAfter == Column(last'.technology, last'.region)

\* The buckets of a calendar year, December 31 included to its last hour.
CalendarYear(year) == {i \in DOMAIN time_index :
                          time_index[i] >= YearStart(year) /\ time_index[i] < YearStart(year + 1)}

\* C1: every add_capacity(technology, region, capacity_mw, year) raises the
\* capacity of that column by exactly capacity_mw in every bucket at or after
\* the start of year, relative to the value the bucket held just before the
\* call (stated for the buckets that held a value).
C1_AddAccumulates ==
    [][(last'.op = "add_capacity" /\ calls' = calls + 1) =>
          \A i \in FromYearMask(last'.year) :
              ~IsNaN(capacity[LastColumnAfter][i]) =>
                  capacity'[LastColumnAfter][i]
                      = capacity[LastColumnAfter][i] + last'.capacity_mw * 100]_vars

\* C2: in every reachable state the capacity of each column is non-decreasing
\* over the time buckets (compared where both buckets hold a value).
C2_CapacityNonDecreasing ==
    \A c \in DOMAIN capacity : \A i, j \in DOMAIN capacity[c] :
        (i < j /\ ~IsNaN(capacity[c][i]) /\ ~IsNaN(capacity[c][j]))
            => capacity[c][i] <= capacity[c][j]

\* C3: add_capacity leaves unchanged the capacity of its column in every bucket
\* before year, the capacity of every other column in every bucket, and all
\* generation and demand values.
C3_AddCapacityFrame ==
    [][(last'.op = "add_capacity" /\ calls' = calls + 1) =>
          /\ \A i \in DOMAIN time_index :
                time_index[i] < YearStart(last'.year)
                    => capacity'[LastColumnAfter][i] = capacity[LastColumnAfter][i]
          /\ \A c \in DOMAIN capacity : c # LastColumnAfter => capacity'[c] = capacity[c]
          /\ generation' = generation
          /\ demand' = demand]_vars

\* C3 witness: an add_capacity from a year after the first has written the
\* later buckets of its column while generation was already recorded.
C3_Witness ==
    /\ last.op = "add_capacity"
    /\ last.year > start_year /\ last.year <= end_year
    /\ ~IsNaN(capacity[LastColumn][n_buckets])
    /\ capacity[LastColumn][n_buckets] # capacity[LastColumn][1]
    /\ \E c \in DOMAIN generation : ~IsNaN(generation[c][1])

\* C5: with the default configuration simulate_generation(year), for a year of
\* the horizon, completes for every technology and region, and the total
\* generation recorded afterwards is greater than 0.
C5_SimulateGenerationCompletes ==
    (last.op = "simulate_generation" /\ last.year \in start_year..end_year) =>
        /\ last.raised = "none"
        /\ FrameSum(generation, DOMAIN time_index, DOMAIN generation) > 0

\* C9: for every year, calculate_renewable_share(year) lies in [0, 1] and is
\* exactly 0, without a division by zero, when the year's total generation is 0.
C9_RenewableShareInUnitInterval ==
    \A year \in (start_year - 1)..(end_year + 1) :
        LET share == calculate_renewable_share(generation, year)
            total == FrameSum(generation, YearMask(year), DOMAIN generation)
        IN /\ share.den > 0
           /\ 0 <= share.num /\ share.num <= share.den
           /\ (total = 0 => share.num = 0)

\* C9 witness: after a simulation one year has a positive share and another
\* year, simulated too, has no generation at all.
C9_Witness ==
    /\ last.op = "simulate_generation"
    /\ FrameSum(generation, YearMask(last.year), DOMAIN generation) = 0
    /\ calculate_renewable_share(generation, last.year).num = 0
    /\ \E year \in start_year..end_year :
          /\ calculate_renewable_share(generation, year).num > 0
          /\ calculate_renewable_share(generation, year).num
                = calculate_renewable_share(generation, year).den

\* C10: right after simulate_generation(year), in every bucket of that year
\* and every column, a recorded generation is at most the installed capacity.
C10_GenerationAtMostCapacity ==
    last.op = "simulate_generation" =>
        \A c \in DOMAIN generation : \A i \in CalendarYear(last.year) :
            ~IsNaN(generation[c][i]) =>
                /\ ~IsNaN(capacity[c][i])
                /\ generation[c][i] <= capacity[c][i] * 100

\* C10 witness: a simulated bucket with added capacity whose effective
\* capacity factor was clipped to 1, so generation equals capacity.
C10_Witness ==
    /\ last.op = "simulate_generation"
    /\ \E c \in DOMAIN generation : \E i \in YearMask(last.year) :
          /\ i > 1
          /\ capacity[c][i] > 0
          /\ generation[c][i] = capacity[c][i] * 100

\* The solar_pv columns of the capacity frame.
SolarColumns == {Column(solar_pv, r) : r \in Range(regions)}

\* C14: after initialization the initial capacities of solar_pv over all
\* regions sum to the configured total of 946 MW, the regional shares summing
\* to 1.0.
C14_InitialSolarSumsToTotal ==
    calls = 0 =>
        /\ SumOver([c \in SolarColumns |-> capacity[c][1]], SolarColumns)
              = solar_capacity * 100
        /\ SumOver(solar_distribution, DOMAIN solar_distribution) = 100

\* C14 witness: the freshly initialized frame holds each region's share, the
\* smallest one being 47.3 MW, and nothing in the later buckets.
C14_Witness ==
    /\ calls = 0
    /\ capacity[Column(solar_pv, "Mymensingh")][1] = 4730
    /\ capacity[Column(solar_pv, "Chittagong")][1] = 18920
    /\ IsNaN(capacity[Column(solar_pv, "Dhaka")][2])

\* ====================================================================
\* Claims about the scenario runner, checked under SpecScenario
\* ====================================================================

\* C4: running the baseline scenario completes and returns a table with
\* exactly END_YEAR - START_YEAR + 1 rows, one per year in ascending order.
C4_BaselineReturnsOneRowPerYear ==
    results["Baseline"] # NotRun =>
        /\ results["Baseline"].raised = "none"
        /\ Len(results["Baseline"].rows) = END_YEAR - START_YEAR + 1
        /\ \A k \in DOMAIN results["Baseline"].rows :
              results["Baseline"].rows[k].year = START_YEAR + k - 1

IndependentTables == {"TECHNOLOGIES", "POLICY_PARAMS", "RENEWABLE_TARGETS"}

\* C6: whatever scenarios have run, the tables TECHNOLOGIES, POLICY_PARAMS and
\* RENEWABLE_TARGETS seen by a scenario that has not run its own modify_config,
\* and by a freshly constructed SimulationConfig, hold the default values.
C6_ScenarioTablesIndependent ==
    \A field \in IndependentTables :
        /\ ConfigSeen(heap, SimulationConfig)[field] = DefaultTable(field)
        /\ \A name \in ScenarioNames :
              results[name] = NotRun =>
                  ConfigSeen(heap, attrs[name])[field] = DefaultTable(field)

\* C13: when a scenario is run again with the configuration and the random
\* seed of its previous run, both runs return a table and the two tables are
\* the same, row for row and column for column.
C13_SameSeedSameTable ==
    [][\A name \in ScenarioNames :
          (/\ results[name] # NotRun
           /\ results'[name].run_no # results[name].run_no
           /\ results'[name].seed = results[name].seed
           /\ results'[name].config = results[name].config)
          => (/\ results[name].raised = "none"
              /\ results'[name].raised = "none"
              /\ results'[name].rows = results[name].rows)]_vars

\* ====================================================================
\* Claims about the sensitivity runner, checked under SpecSensitivity
\* ====================================================================

\* The heap before any runner has written to it.
PristineHeap == [ref \in {ClassDefault(f) : f \in ConfigFields} |-> DefaultTable(ref[2])]

\* C7: the configuration in effect for each candidate value is the pristine
\* default configuration with only the parameter under analysis set to that
\* candidate.
C7_CandidateDerivesFromPristine ==
    \A k \in DOMAIN sweep.in_effect :
        sweep.in_effect[k].config
            = ConfigSeen(modify_parameter(PristineHeap, SimulationConfig,
                                          sweep.in_effect[k].parameter,
                                          sweep.in_effect[k].value),
                         SimulationConfig)

\* C8: run_sensitivity_analysis with an unrecognised parameter name fails with
\* an error naming that parameter, for every list of candidate values, and
\* returns no table.
C8_UnknownParameterFails ==
    (sweep # NoSweep /\ sweep.parameter \notin recognised_parameters) =>
        /\ sweep.raised = "ValueError"
        /\ sweep.names = sweep.parameter
        /\ ~sweep.returned

\* ====================================================================
\* Claims about the models and helpers, checked under SpecModels
\* ====================================================================

\* C11: an EnergySystem configured with an empty year range (end_year before
\* start_year) is constructed without error, and simulate() on it returns an
\* empty result without error.
C11_EmptyRangeGivesEmptyResult ==
    (probe.op = "EnergySystem" /\ probe.end_year < probe.start_year) =>
        /\ probe.raised = "none"
        /\ probe.simulate = [raised |-> "none", years |-> <<>>]

\* C12: add_capacity called with a technology or a region name that is not
\* configured raises an error and leaves capacity, generation and demand as
\* they were.
C12_UnknownNameRaises ==
    [][(probe'.op = "add_capacity" /\ calls' = calls + 1
          /\ (~ConfiguredTechnology(probe'.technology) \/ ~ConfiguredRegion(probe'.region)))
        => (/\ probe'.raised # "none"
            /\ capacity' = capacity
            /\ generation' = generation
            /\ demand' = demand)]_vars

\* The technologies the learning curve is specified for.
SpecifiedLearningTechnologies == {solar_pv, wind, biomass, battery_storage}

\* C15: calculate_capex applies the learning-curve reduction
\* (1 - learning_rate) ** ((year - reference_year) / 2) to exactly solar_pv,
\* wind, biomass and battery_storage, and to no other technology.
C15_LearningCurveTechnologies ==
    (probe.op = "calculate_capex" /\ probe.raised = "none") =>
        probe.value = CapexAt(base_costs[probe.technology],
                              IF probe.technology \in SpecifiedLearningTechnologies
                              THEN LearningReduction(probe.year) ELSE 1000,
                              probe.capacity_mw, probe.year)

\* C16: calculate_capex and calculate_opex for a technology absent from the
\* cost table return zero cost without raising.
C16_UnknownTechnologyCostsZero ==
    (probe.op \in {"calculate_capex", "calculate_opex"}
        /\ probe.technology \notin DOMAIN base_costs) =>
        /\ probe.raised = "none"
        /\ probe.value = 0

\* C17: the environmental lookups, the EnvironmentalModel methods and the
\* helpers alike, return zero without raising for a technology that is absent
\* from the factor table they read.
C17_UnknownTechnologyZeroImpact ==
    (probe.op \in {"EnvironmentalModel", "helpers"}
        /\ probe.technology \notin DOMAIN probe.table) =>
        /\ probe.raised = "none"
        /\ probe.value = 0

\* C17 witness: a helper and a model method have each been asked about a
\* technology outside the table with a positive amount (here the helper).
C17_Witness ==
    /\ probe.op = "helpers"
    /\ probe.lookup = "calculate_land_use"
    /\ probe.technology = hydro
    /\ probe.amount > 0
    /\ probe.value = 0

\* C18: for every technology in the emission-factor table and every
\* generation value, EnvironmentalModel.calculate_emissions equals
\* generation_mwh * emission_factor[technology], the value the helper
\* calculate_emissions returns for the same table.
C18_EmissionsAreGenerationTimesFactor ==
    (probe.op = "EnvironmentalModel" /\ probe.lookup = "calculate_emissions"
        /\ probe.technology \in DOMAIN probe.table) =>
        /\ probe.value = probe.amount * probe.table[probe.technology]
        /\ probe.value = calculate_emissions(probe.technology, probe.amount, probe.table)

\* C19: calculate_lcoe called with annual_generation_mwh = 0 signals an error
\* instead of returning an LCOE value, for every technology, capacity and year.
C19_ZeroGenerationIsAnError ==
    (probe.op = "calculate_lcoe" /\ probe.annual_generation_mwh = 0) =>
        probe.raised # "none"

RECURSIVE PrefixSum(_, _)
\* the sum of the first k cash flows
PrefixSum(flows, k) == IF k = 0 THEN 0 ELSE PrefixSum(flows, k - 1) + flows[k]

\* C20: calculate_payback_period returns the smallest 1-based index k at which
\* the sum of the first k cash flows is >= initial_investment, and the
\* infinite sentinel exactly when the series has no such index (the empty
\* series included).
C20_PaybackIsFirstRecoveryYear ==
    probe.op = "calculate_payback_period" =>
        LET recovered == {k \in 1..Len(probe.annual_cash_flows) :
                            PrefixSum(probe.annual_cash_flows, k)
                                >= probe.initial_investment}
        IN /\ probe.infinite <=> recovered = {}
           /\ recovered # {} =>
                 /\ probe.year \in recovered
                 /\ \A k \in recovered : probe.year <= k

\* C20 witness: the investment is recovered exactly, not exceeded, in the last
\* year of a series whose running sum went down on the way.
C20_Witness ==
    /\ probe.op = "calculate_payback_period"
    /\ ~probe.infinite
    /\ probe.year = Len(probe.annual_cash_flows)
    /\ probe.year = MaxFlows
    /\ probe.annual_cash_flows[2] < 0
    /\ PrefixSum(probe.annual_cash_flows, probe.year) = probe.initial_investment

\* C21: for every technology in the cost table, every capacity_mw >= 0 and
\* every year, calculate_capex is >= 0, is > 0 for capacity_mw > 0, and is
\* strictly increasing in capacity_mw for fixed technology and year.
C21_CapexPositiveAndIncreasing ==
    (probe.op = "calculate_capex" /\ probe.technology \in DOMAIN base_costs
        /\ probe.capacity_mw >= 0) =>
        /\ probe.raised = "none"
        /\ probe.value >= 0
        /\ probe.capacity_mw > 0 => probe.value > 0
        /\ \A larger \in CostCapacities :
              larger > probe.capacity_mw =>
                  calculate_capex(probe.technology, larger, probe.year).value > probe.value

\* C21 witness: the cheapest technology at its most reduced cost, for 1 MW,
\* costs something and less than 100 MW do.
C21_Witness ==
    /\ probe.op = "calculate_capex"
    /\ probe.technology = battery_storage
    /\ probe.year = 2026
    /\ probe.capacity_mw = 1
    /\ probe.value > 0
    /\ probe.value < calculate_capex(battery_storage, 100, 2026).value

\* C22: calculate_hourly_demand returns exactly 8760 hourly values for the
\* requested year, year 2024 included.
C22_HourlyDemandHas8760Values ==
    probe.op = "calculate_hourly_demand" => probe.len = 8760

\* C25: simulate_generation(year) recomputes the generation of that year's
\* time buckets only: the generation of the buckets of every other year, all
\* capacity and all demand are left as they were.
C25_SimulateGenerationFrame ==
    [][(last'.op = "simulate_generation" /\ calls' = calls + 1) =>
          /\ \A c \in DOMAIN generation : \A i \in DOMAIN time_index :
                i \notin CalendarYear(last'.year) => generation'[c][i] = generation[c][i]
          /\ capacity' = capacity
          /\ demand' = demand]_vars

\* C25 witness: after a simulation of a later year, the generation computed
\* for the first year by an earlier call is still there.
C25_Witness ==
    /\ last.op = "simulate_generation"
    /\ last.year > start_year /\ last.year <= end_year
    /\ \E c \in DOMAIN generation : \E i \in CalendarYear(start_year) :
          ~IsNaN(generation[c][i]) /\ generation[c][i] > 0

\* C26: the keys of capacity_by_technology and of generation_by_technology
\* returned by get_system_summary are exactly the configured technology names
\* (solar_pv, wind, biomass, battery_storage).
C26_SummaryKeysAreTechnologyNames ==
    \A year \in start_year..end_year :
        LET summary == get_system_summary(capacity, generation, year)
        IN summary.raised = "none" =>
              /\ DOMAIN summary.capacity_by_technology = Range(technology_keys)
              /\ DOMAIN summary.generation_by_technology = Range(technology_keys)

\* C28: every time bucket of the index belongs to the bucket set (the year
\* mask) of exactly one year of start_year..end_year.
C28_EveryBucketInExactlyOneYear ==
    \A c \in DOMAIN generation : \A i \in DOMAIN generation[c] :
        Cardinality({year \in start_year..end_year : i \in YearMask(year)}) = 1

\* C30: calling run() again on a scenario that has already run applies its
\* configuration modifications once: the configuration of the second run is
\* the configuration of the first (the multipliers do not compound).
C30_RerunAppliesModificationsOnce ==
    [][\A name \in ScenarioNames :
          (runs > 0 /\ results[name].run_no = runs /\ results'[name].run_no = runs + 1)
              => results'[name].config = results[name].config]_vars

\* C27: the value _modify_parameter wrote for a candidate is the value the
\* models read in the rerun for that candidate, so two reruns of one sweep with
\* different candidate values use different values of the parameter.
C27_RerunReadsCandidateValue ==
    \A j \in DOMAIN sweep.in_effect :
        /\ models_read(sweep.in_effect[j].parameter) = sweep.in_effect[j].value
        /\ \A k \in DOMAIN sweep.in_effect :
              sweep.in_effect[j].value # sweep.in_effect[k].value
                  => models_read(sweep.in_effect[j].parameter)
                         # models_read(sweep.in_effect[k].parameter)

ExpectedEmployment(capacity_by_technology) ==
    SumOver([k \in DOMAIN capacity_by_technology |->
                IF capacity_by_technology[k] > 0
                THEN capacity_by_technology[k]
                       * SumOver([t \in DOMAIN employment_factors |->
                                     IF GroupKey(t) = k THEN employment_factors[t] ELSE 0],
                                 DOMAIN employment_factors)
                ELSE 0],
            DOMAIN capacity_by_technology)

====
